---- MODULE Spec2Model ----
(***************************************************************************)
(* Model of turm's job watcher (src/job_watcher.rs): the two query         *)
(* parsers, the filename-pattern resolver and the poll loop with its job   *)
(* cache.                                                                  *)
(*                                                                         *)
(* A string is a sequence of one-character strings.  Option<T> is a        *)
(* sequence of length at most one: None is <<>>, Some(x) is <<x>>.         *)
(***************************************************************************)
EXTENDS Integers, Sequences, FiniteSets, TLC

VARIABLES
    \* JobWatcher::run
    job_cache,      \* self.job_cache: job_id -> Job
    running_jobs,   \* the last iteration's running_jobs
    finished_jobs,  \* the last iteration's finished_jobs, after the backfill
    jobs,           \* the last AppMessage::Jobs sent on self.app
    sent,           \* number of messages sent on self.app
    worker,         \* "polling", or "panicked" once the thread has unwound
    rx_open,        \* the receiving side of self.app still exists
    cycles,         \* loop iterations started
    squeue_out,     \* the shapes of the lines squeue printed in the last iteration
    sacct_out,      \* the shapes of the lines sacct printed in the last iteration
    squeue_status,  \* how the last squeue run ended
    sacct_status,   \* how the last sacct run ended
    seen,           \* history: per job id, its latest running record's paths,
                    \* the iteration it was in (at), and whether the id has
                    \* since been missing from both queries (gap)
    \* JobWatcher::resolve_path called on its own
    r_pc, r_path, r_ctx, r_result,
    \* the parsers called on their own
    p_pc, p_kind, p_shapes, p_result

pollVars    == <<job_cache, running_jobs, finished_jobs, jobs, sent, worker, rx_open,
                 cycles, squeue_out, sacct_out, squeue_status, sacct_status,
                 seen>>
resolveVars == <<r_pc, r_path, r_ctx, r_result>>
parseVars   == <<p_pc, p_kind, p_shapes, p_result>>
vars        == <<pollVars, resolveVars, parseVars>>

None    == <<>>
Some(x) == <<x>>

-----------------------------------------------------------------------------
(* Strings                                                                 *)

RECURSIVE Concat(_)
\* the concatenation of a sequence of strings
Concat(ss) == IF ss = <<>> THEN <<>> ELSE Head(ss) \o Concat(Tail(ss))

RECURSIVE JoinWith(_, _)
\* [T]::join(sep)
JoinWith(ss, sep) ==
    IF ss = <<>> THEN <<>>
    ELSE IF Len(ss) = 1 THEN ss[1]
    ELSE ss[1] \o sep \o JoinWith(Tail(ss), sep)

\* str::starts_with
StartsWith(s, p) == Len(s) >= Len(p) /\ SubSeq(s, 1, Len(p)) = p

RECURSIVE SplitFrom(_, _, _, _)
\* str::split(pat) from offset i on, the current part starting at offset start
SplitFrom(s, sep, i, start) ==
    IF i + Len(sep) - 1 > Len(s)
    THEN << SubSeq(s, start, Len(s)) >>
    ELSE IF s[i] = sep[1] /\ SubSeq(s, i, i + Len(sep) - 1) = sep
         THEN << SubSeq(s, start, i - 1) >> \o SplitFrom(s, sep, i + Len(sep), i + Len(sep))
         ELSE SplitFrom(s, sep, i + 1, start)

\* str::split(pat): the parts between the non-overlapping occurrences of sep
Split(s, sep) == SplitFrom(s, sep, 1, 1)

\* char::is_whitespace, for the characters the model uses
IsWhitespace(c) == c \in {" ", "\t"}

RECURSIVE TrimStart(_)
TrimStart(s) == IF s # <<>> /\ IsWhitespace(Head(s)) THEN TrimStart(Tail(s)) ELSE s

RECURSIVE TrimEnd(_)
TrimEnd(s) ==
    IF s # <<>> /\ IsWhitespace(s[Len(s)]) THEN TrimEnd(SubSeq(s, 1, Len(s) - 1)) ELSE s

\* str::trim
Trim(s) == TrimEnd(TrimStart(s))

RECURSIVE SplitWhitespaceFrom(_, _, _)
SplitWhitespaceFrom(s, i, cur) ==
    IF i > Len(s) THEN (IF cur = <<>> THEN <<>> ELSE <<cur>>)
    ELSE IF IsWhitespace(s[i])
         THEN (IF cur = <<>> THEN <<>> ELSE <<cur>>) \o SplitWhitespaceFrom(s, i + 1, <<>>)
         ELSE SplitWhitespaceFrom(s, i + 1, Append(cur, s[i]))

\* str::split_whitespace: the non-empty runs of non-whitespace characters
SplitWhitespace(s) == SplitWhitespaceFrom(s, 1, <<>>)

\* PathBuf::from(base).join(rel) for a relative rel, as text
PathJoin(base, rel) ==
    IF base = <<>> \/ base[Len(base)] = "/" THEN base \o rel ELSE base \o <<"/">> \o rel

-----------------------------------------------------------------------------
(* JobWatcher::resolve_path                                                *)

\* the second characters of r"%(%|A|a|J|j|N|n|s|t|u|x)"
TokenChars == {"%", "A", "a", "J", "j", "N", "n", "s", "t", "u", "x"}

RECURSIVE CapturesFrom(_, _)
\* RE.captures_iter(path): the start offsets of the leftmost, non-overlapping
\* matches, searching from offset i
CapturesFrom(path, i) ==
    IF i + 1 > Len(path) THEN <<>>
    ELSE IF path[i] = "%" /\ path[i + 1] \in TokenChars
         THEN <<i>> \o CapturesFrom(path, i + 2)
         ELSE CapturesFrom(path, i + 1)

CapturesIter(path) == CapturesFrom(path, 1)

slurm_no_val == <<"4", "2", "9", "4", "9", "6", "7", "2", "9", "4">>
NA           == <<"N", "/", "A">>

\* let array_id = if array_id == "N/A" { slurm_no_val } else { array_id }
ResolvedArrayId(array_id) == IF array_id = NA THEN slurm_no_val ELSE array_id

DefaultJobPattern   == <<"s", "l", "u", "r", "m", "-", "%", "J", ".", "o", "u", "t">>
DefaultArrayPattern ==
    <<"s", "l", "u", "r", "m", "-", "%", "A", "_", "%", "a", ".", "o", "u", "t">>

\* path.is_empty() with an off-by-one length test
PathIsEmptyOffByOne(path) == Len(path) <= 1

\* path.is_empty()
PathIsEmpty(path) == path = <<>>

\* the path the token loop scans: the pattern given, or the default one
EffectivePath(path, ctx) ==
    IF PathIsEmpty(path)
    THEN IF ResolvedArrayId(ctx.array_id) = slurm_no_val
         THEN PathJoin(ctx.working_dir, DefaultJobPattern)
         ELSE PathJoin(ctx.working_dir, DefaultArrayPattern)
    ELSE path

\* the match arms on m.as_str()
Replacement(tok, ctx) ==
    CASE tok = <<"%", "%">> -> <<"%">>
      [] tok = <<"%", "A">> -> ctx.array_master
      [] tok = <<"%", "a">> -> ResolvedArrayId(ctx.array_id)
      [] tok = <<"%", "J">> -> ctx.id
      [] tok = <<"%", "j">> -> ctx.id
      [] tok = <<"%", "N">> -> Split(ctx.host, <<",">>)[1]
      [] tok = <<"%", "n">> -> <<"0">>
      [] tok = <<"%", "s">> -> <<"b", "a", "t", "c", "h">>
      [] tok = <<"%", "t">> -> <<"0">>
      [] tok = <<"%", "u">> -> ctx.user
      [] tok = <<"%", "x">> -> ctx.name

\* String::replace_range(start..start+2, with)
ReplaceRange(path, start, with) ==
    SubSeq(path, 1, start - 1) \o with \o SubSeq(path, start + 2, Len(path))

\* .collect::<Vec<_>>().iter().rev(): the captures, rightmost first
CaptureOrder(caps) == [k \in 1..Len(caps) |-> caps[Len(caps) + 1 - k]]

RECURSIVE SubstituteAll(_, _, _, _)
\* the for loop: each capture's range and text come from the scanned copy
\* (orig), the replacement is made in path
SubstituteAll(path, orig, caps, ctx) ==
    IF caps = <<>> THEN path
    ELSE LET m == Head(caps)
         IN  SubstituteAll(ReplaceRange(path, m, Replacement(SubSeq(orig, m, m + 1), ctx)),
                           orig, Tail(caps), ctx)

\* replace_range on a range that may lie past the end of the text (the
\* forward loop below can build one): the text is cut at its end
ReplaceRangeLenient(path, start, with) ==
    IF start - 1 > Len(path) THEN path \o with
    ELSE SubSeq(path, 1, start - 1) \o with \o SubSeq(path, start + 2, Len(path))

RECURSIVE SubstituteForward(_, _, _, _)
SubstituteForward(path, orig, caps, ctx) ==
    IF caps = <<>> THEN path
    ELSE LET m == Head(caps)
         IN  SubstituteForward(
                 ReplaceRangeLenient(path, m, Replacement(SubSeq(orig, m, m + 1), ctx)),
                 orig, Tail(caps), ctx)

\* resolve_path with the captures visited leftmost first (the loop without .rev())
resolve_path_forward(path, ctx) ==
    LET p == EffectivePath(path, ctx)
    IN  Some(SubstituteForward(p, p, CapturesIter(p), ctx))

\* resolve_path(path, array_master, array_id, id, host, user, name, working_dir),
\* the context arguments gathered in ctx; the PathBuf holds the text unchanged
resolve_path(path, ctx) ==
    LET p == EffectivePath(path, ctx)
    IN  Some(SubstituteAll(p, p, CaptureOrder(CapturesIter(p)), ctx))

-----------------------------------------------------------------------------
(* JobWatcher::get_running_jobs and JobWatcher::get_finished_jobs          *)

output_separator == <<"#", "#", "#", "t", "u", "r", "m", "#", "#", "#">>

\* the fields asked of squeue; --Format prints each followed by the separator
squeue_fields ==
    <<"jobid", "name", "state", "username", "timeused", "tres-alloc", "partition",
      "nodelist", "stdout", "stderr", "command", "statecompact", "reason", "qos",
      "ArrayJobID", "ArrayTaskID", "NodeList", "WorkDir">>

\* the fields asked of sacct; --parsable ends each with the delimiter
sacct_fields ==
    <<"jobid", "jobname", "state", "user", "elapsed", "alloctres", "partition",
      "nodelist", "submitline", "reason", "qos">>

\* parts.len() < fields.len() + 1: a line with too many parts passes
TooFewParts(parts, fields) == Len(parts) < Len(fields) + 1

\* parts.len() != fields.len() + 1
WrongPartCount(parts, fields) == Len(parts) # Len(fields) + 1

NoneText == <<"N", "o", "n", "e">>

\* if reason == "None" { None } else { Some(reason) }
ReasonOf(reason) == IF reason = NoneText THEN None ELSE Some(reason)

\* match array_task_id { "N/A" => None, _ => Some(array_task_id) }
ArrayStepOf(array_task_id) == IF array_task_id = NA THEN None ELSE Some(array_task_id)

\* the closure given to filter_map in get_running_jobs: None, or Some(Job)
ParseRunningLine(l) ==
    LET parts == Split(l, output_separator)
    IN  IF WrongPartCount(parts, squeue_fields) THEN None
        ELSE LET ctx == [array_master |-> parts[15], array_id |-> parts[16],
                         id |-> parts[1], host |-> parts[17], user |-> parts[4],
                         name |-> parts[2], working_dir |-> parts[18]]
             IN  Some([job_id        |-> parts[1],
                       array_id      |-> parts[15],
                       array_step    |-> ArrayStepOf(parts[16]),
                       name          |-> parts[2],
                       state         |-> parts[3],
                       state_compact |-> parts[12],
                       reason        |-> ReasonOf(parts[13]),
                       qos           |-> parts[14],
                       user          |-> parts[4],
                       time          |-> parts[5],
                       tres          |-> parts[6],
                       partition     |-> parts[7],
                       nodelist      |-> parts[8],
                       command       |-> parts[11],
                       stdout        |-> resolve_path(parts[9], ctx),
                       stderr        |-> resolve_path(parts[10], ctx)])

RECURSIVE SkipWhileSubmit(_)
\* .skip_while(|&arg| arg.starts_with("sbatch") || arg.starts_with('-'))
SkipWhileSubmit(args) ==
    IF args # <<>> /\ (StartsWith(Head(args), <<"s", "b", "a", "t", "c", "h">>) \/ StartsWith(Head(args), <<"-">>))
    THEN SkipWhileSubmit(Tail(args))
    ELSE args

\* the command of a finished job: the submit line without sbatch and its
\* options, or the whole submit line when nothing is left
CommandOf(submitline) ==
    LET command == JoinWith(SkipWhileSubmit(SplitWhitespace(submitline)), <<" ">>)
    IN  IF command = <<>> THEN submitline ELSE command

\* match state { "RUNNING" => "R", ... , _ => state }
StateCompact(state) ==
    CASE state = <<"R", "U", "N", "N", "I", "N", "G">> -> <<"R">>
      [] state = <<"P", "E", "N", "D", "I", "N", "G">> -> <<"P", "D">>
      [] state = <<"C", "O", "M", "P", "L", "E", "T", "E", "D">> -> <<"C", "D">>
      [] state = <<"C", "A", "N", "C", "E", "L", "L", "E", "D">> -> <<"C", "A">>
      [] state = <<"F", "A", "I", "L", "E", "D">> -> <<"F">>
      [] state = <<"T", "I", "M", "E", "O", "U", "T">> -> <<"T", "O">>
      [] state = <<"N", "O", "D", "E", "_", "F", "A", "I", "L">> -> <<"N", "F">>
      [] state = <<"P", "R", "E", "E", "M", "P", "T", "E", "D">> -> <<"P", "R">>
      [] state = <<"S", "U", "S", "P", "E", "N", "D", "E", "D">> -> <<"S">>
      [] OTHER -> state

\* (array_job_id, array_task_id) of a sacct job id
ArrayIdsOf(id) ==
    IF \E i \in 1..Len(id) : id[i] = "_"
    THEN LET parts == Split(id, <<"_">>)
         IN  IF Len(parts) = 2 THEN <<parts[1], parts[2]>> ELSE <<id, NA>>
    ELSE <<id, NA>>

\* the closure given to filter_map in get_finished_jobs: None, or Some(Job)
ParseFinishedLine(l) ==
    LET parts == Split(l, output_separator)
    IN  IF WrongPartCount(parts, sacct_fields) THEN None
        ELSE LET array == ArrayIdsOf(parts[1])
             IN  Some([job_id        |-> parts[1],
                       array_id      |-> array[1],
                       array_step    |-> ArrayStepOf(array[2]),
                       name          |-> parts[2],
                       state         |-> parts[3],
                       state_compact |-> StateCompact(parts[3]),
                       reason        |-> ReasonOf(parts[10]),
                       qos           |-> parts[11],
                       user          |-> parts[4],
                       time          |-> parts[5],
                       tres          |-> parts[6],
                       partition     |-> parts[7],
                       nodelist      |-> parts[8],
                       command       |-> CommandOf(parts[9]),
                       stdout        |-> None,
                       stderr        |-> None])

RECURSIVE FilterMapRunning(_)
FilterMapRunning(lines) ==
    IF lines = <<>> THEN <<>>
    ELSE ParseRunningLine(Trim(Head(lines))) \o FilterMapRunning(Tail(lines))

RECURSIVE FilterMapFinished(_)
FilterMapFinished(lines) ==
    IF lines = <<>> THEN <<>>
    ELSE ParseFinishedLine(Trim(Head(lines))) \o FilterMapFinished(Tail(lines))

\* get_running_jobs, given the lines squeue printed
get_running_jobs(lines) == FilterMapRunning(lines)

\* get_finished_jobs, given the lines sacct printed
get_finished_jobs(lines) == FilterMapFinished(lines)

-----------------------------------------------------------------------------
(* The query output the model feeds the parsers.  A line is described by   *)
(* its shape: the values of the fields that vary, the number n of fields   *)
(* printed, whether each field is followed by the separator (trail) or the *)
(* fields are only joined by it, and the blanks around the line (pad).     *)

SqueueValues(d) ==
    <<d.id, <<"n">>, <<"R", "U", "N", "N", "I", "N", "G">>, <<"u">>, <<"1">>, <<"c">>, <<"p">>, <<"h">>, d.out, d.err, <<"r", "u", "n">>, <<"R">>,
      <<"N", "o", "n", "e">>, <<"q">>, d.id, NA, <<"h", ",", "g">>, <<"/", "w">>>>

SacctValues(d) ==
    <<d.id, <<"n">>, <<"C", "O", "M", "P", "L", "E", "T", "E", "D">>, <<"u">>, <<"1">>, <<"c">>, <<"p">>, <<"h">>, <<"s", "b", "a", "t", "c", "h", " ", "-", "n", "1", " ", "r", "u", "n">>, <<"N", "o", "n", "e">>, <<"q">>>>

\* the text of a line of n fields: the values in order, "x" for any further field
RenderLine(values, d) ==
    LET fs == [i \in 1..d.n |-> IF i <= Len(values) THEN values[i] ELSE <<"x">>]
    IN  d.pad \o (IF d.trail
                  THEN Concat([i \in 1..d.n |-> fs[i] \o output_separator])
                  ELSE JoinWith(fs, output_separator)) \o d.pad

RenderSqueue(shapes) ==
    [i \in 1..Len(shapes) |-> RenderLine(SqueueValues(shapes[i]), shapes[i])]

RenderSacct(shapes) ==
    [i \in 1..Len(shapes) |-> RenderLine(SacctValues(shapes[i]), shapes[i])]

\* the number of parts a line of this shape splits into (no field value holds
\* the separator)
PartsOfShape(d) == (IF d.n = 0 THEN 1 ELSE d.n) + (IF d.trail THEN 1 ELSE 0)

\* the shapes of lines other than the regular one: a field short, a field
\* long, no trailing separator (with the regular and with one more field),
\* an empty line
OddShapes(nfields) ==
    { [n |-> nfields - 1, trail |-> TRUE, pad |-> <<>>],
      [n |-> nfields + 1, trail |-> TRUE, pad |-> <<>>],
      [n |-> nfields, trail |-> FALSE, pad |-> <<>>],
      [n |-> nfields + 1, trail |-> FALSE, pad |-> <<" ">>],
      [n |-> 0, trail |-> FALSE, pad |-> <<>>] }

RegularShapes(nfields) ==
    { [n |-> nfields, trail |-> TRUE, pad |-> <<>>],
      [n |-> nfields, trail |-> TRUE, pad |-> <<" ">>] }

RECURSIVE SeqsUpTo(_, _)
\* the sequences of at most n elements of S
SeqsUpTo(S, n) ==
    IF n = 0 THEN { <<>> }
    ELSE LET shorter == SeqsUpTo(S, n - 1)
         IN  shorter \cup { Append(t, x) : t \in { u \in shorter : Len(u) = n - 1 }, x \in S }

-----------------------------------------------------------------------------
(* resolve_path on its own: the patterns and contexts it is applied to     *)

MaxPieces == 3

\* what the patterns are put together from: every token, a lone "%", and
\* text that is no token
Pieces ==
    { <<"%", c>> : c \in TokenChars } \cup { <<"%">>, <<"z">>, <<"/">>, <<"A">> }

RECURSIVE PiecesUpTo(_)
PiecesUpTo(n) ==
    IF n = 0 THEN { <<>> }
    ELSE LET shorter == PiecesUpTo(n - 1)
         IN  shorter \cup { t \o p : t \in shorter, p \in Pieces }

Templates == PiecesUpTo(MaxPieces)

\* contexts: values shorter and longer than a token, empty ones, values that
\* hold "%" or the text of a token, a host list with and without a comma
Contexts ==
    { [array_master |-> <<"7">>, array_id |-> NA, id |-> <<"9">>,
       host |-> <<"h", ",", "g">>, user |-> <<"u">>, name |-> <<"%", "j">>,
       working_dir |-> <<"/", "w">>],
      [array_master |-> <<"1", "2", "3">>, array_id |-> <<"4">>, id |-> <<"5", "6">>,
       host |-> <<"h">>, user |-> <<"%">>, name |-> <<>>,
       working_dir |-> <<"/", "w", "/">>],
      [array_master |-> <<>>, array_id |-> <<"4", "5">>, id |-> <<"%", "A">>,
       host |-> <<>>, user |-> <<"b", "o", "b">>, name |-> <<"A">>,
       working_dir |-> <<>>] }

InitPollIdle ==
    /\ job_cache = <<>> /\ running_jobs = <<>> /\ finished_jobs = <<>> /\ jobs = <<>>
    /\ sent = 0 /\ worker = "idle" /\ rx_open = TRUE /\ cycles = 0
    /\ squeue_out = <<>> /\ sacct_out = <<>>
    /\ squeue_status = "none" /\ sacct_status = "none"
    /\ seen = <<>>

InitResolveIdle ==
    /\ r_pc = "idle" /\ r_path = <<>> /\ r_ctx = <<>> /\ r_result = None

InitParseIdle ==
    /\ p_pc = "idle" /\ p_kind = "none" /\ p_shapes = <<>>
    /\ p_result = <<>>

InitResolve ==
    /\ InitPollIdle /\ InitParseIdle
    /\ r_pc = "call"
    /\ r_path \in Templates
    /\ r_ctx \in Contexts
    /\ r_result = None

\* one call of resolve_path
Resolve ==
    /\ r_pc = "call"
    /\ r_result' = resolve_path(r_path, r_ctx)
    /\ r_pc' = "ret"
    /\ UNCHANGED <<r_path, r_ctx, pollVars, parseVars>>

NextResolve == Resolve

SpecResolve == InitResolve /\ [][NextResolve]_vars

\* s holds no occurrence of a token
NoToken(s) == \A i \in 1..(Len(s) - 1) : ~(s[i] = "%" /\ s[i + 1] \in TokenChars)

\* C8 as stated: a pattern without tokens, the empty one included, resolves to itself
C8_NoTokenUnchanged ==
    (r_pc = "ret" /\ NoToken(r_path)) => r_result = Some(r_path)

\* C8, amended: a non-empty pattern without tokens resolves to itself
C8_NonEmptyNoTokenUnchanged ==
    (r_pc = "ret" /\ NoToken(r_path) /\ r_path # <<>>) => r_result = Some(r_path)

C8_Witness ==
    r_pc = "ret" /\ NoToken(r_path) /\ Len(r_path) >= 2 /\ r_path[1] = "%"
    /\ r_result = Some(r_path)

\* what a token stands for, read off the documented token table
Meaning(c, ctx) ==
    CASE c = "%" -> <<"%">>
      [] c = "A" -> ctx.array_master
      [] c = "a" -> IF ctx.array_id = NA THEN slurm_no_val ELSE ctx.array_id
      [] c \in {"J", "j"} -> ctx.id
      [] c = "N" -> LET commas == { i \in 1..Len(ctx.host) : ctx.host[i] = "," }
                    IN  IF commas = {} THEN ctx.host
                        ELSE SubSeq(ctx.host, 1,
                                    (CHOOSE i \in commas : \A k \in commas : i <= k) - 1)
      [] c \in {"n", "t"} -> <<"0">>
      [] c = "s" -> <<"b", "a", "t", "c", "h">>
      [] c = "u" -> ctx.user
      [] c = "x" -> ctx.name

RECURSIVE Expand(_, _, _)
\* one left-to-right pass over s from offset i: a token is replaced by its
\* meaning and skipped, any other character is copied; what is inserted is
\* never read again
Expand(s, i, ctx) ==
    IF i > Len(s) THEN <<>>
    ELSE IF i < Len(s) /\ s[i] = "%" /\ s[i + 1] \in TokenChars
         THEN Meaning(s[i + 1], ctx) \o Expand(s, i + 2, ctx)
         ELSE <<s[i]>> \o Expand(s, i + 1, ctx)

-----------------------------------------------------------------------------
(* The parsers on their own                                                *)

MaxBatch == 2
MaxIdLen == 3

\* sacct job ids: text of digits and "_", and a task part that reads "N/A"
SacctIds ==
    (SeqsUpTo({"1", "_"}, MaxIdLen) \ { <<>> }) \cup { <<"1", "2", "_", "3">>, <<"1", "_", "N", "/", "A">> }

ParseSqueueShapes ==
    { [id |-> <<"1", "0">>, out |-> o, err |-> <<"%", "j", ".", "e">>] @@ sh :
          o \in { <<"/", "a", "/", "o", "u", "t">>, <<"%", "A", "-", "%", "a">>, <<>> }, sh \in RegularShapes(Len(squeue_fields)) }
    \cup { [id |-> <<"1", "1">>, out |-> <<"/", "b">>, err |-> <<"/", "b">>] @@ sh :
               sh \in OddShapes(Len(squeue_fields)) }

ParseSacctShapes ==
    { [id |-> id, n |-> Len(sacct_fields), trail |-> TRUE, pad |-> <<>>] : id \in SacctIds }
    \cup { [id |-> <<"1", "_", "2">>] @@ sh :
               sh \in OddShapes(Len(sacct_fields)) \cup RegularShapes(Len(sacct_fields)) }

InitParse ==
    /\ InitPollIdle /\ InitResolveIdle
    /\ p_pc = "call"
    /\ \/ /\ p_kind = "squeue"
          /\ p_shapes \in SeqsUpTo(ParseSqueueShapes, MaxBatch)
       \/ /\ p_kind = "sacct"
          /\ p_shapes \in SeqsUpTo(ParseSacctShapes, MaxBatch)
    /\ p_result = <<>>

\* one call of get_running_jobs, squeue printing the lines of these shapes
ParseRunning ==
    /\ p_pc = "call" /\ p_kind = "squeue"
    /\ p_result' = get_running_jobs(RenderSqueue(p_shapes))
    /\ p_pc' = "ret"
    /\ UNCHANGED <<p_kind, p_shapes, pollVars, resolveVars>>

\* one call of get_finished_jobs, sacct printing the lines of these shapes
ParseFinished ==
    /\ p_pc = "call" /\ p_kind = "sacct"
    /\ p_result' = get_finished_jobs(RenderSacct(p_shapes))
    /\ p_pc' = "ret"
    /\ UNCHANGED <<p_kind, p_shapes, pollVars, resolveVars>>

NextParse == ParseRunning \/ ParseFinished

SpecParse == InitParse /\ [][NextParse]_vars

\* the number of declared fields of the query that was parsed
DeclaredFields == IF p_kind = "squeue" THEN Len(squeue_fields) ELSE Len(sacct_fields)

RECURSIVE IdsOfAccepted(_, _)
\* the ids of the lines that split into nfields + 1 parts, in line order
IdsOfAccepted(shapes, nfields) ==
    IF shapes = <<>> THEN <<>>
    ELSE (IF PartsOfShape(Head(shapes)) = nfields + 1 THEN <<Head(shapes).id>> ELSE <<>>)
         \o IdsOfAccepted(Tail(shapes), nfields)

Underscores(id) == Cardinality({ i \in 1..Len(id) : id[i] = "_" })

\* C10 as stated: exactly one "_" with text on both sides gives array_id = the
\* first part and array_step = Some(second part); any other id, "123_" and "_4"
\* included, gives array_id = job_id and array_step = None
C10_ArrayIdDerivation ==
    (p_pc = "ret" /\ p_kind = "sacct") =>
        \A i \in 1..Len(p_result) :
            LET id == p_result[i].job_id
                at == CHOOSE k \in 1..Len(id) : id[k] = "_"
            IN  IF Underscores(id) = 1 /\ id[1] # "_" /\ id[Len(id)] # "_"
                THEN /\ p_result[i].array_id = SubSeq(id, 1, at - 1)
                     /\ p_result[i].array_step = Some(SubSeq(id, at + 1, Len(id)))
                ELSE /\ p_result[i].array_id = id
                     /\ p_result[i].array_step = None

-----------------------------------------------------------------------------
(* JobWatcher::run: the poll loop and the job cache                        *)

MaxCycles == 3
MaxLines  == 2

\* the job ids of a list of jobs
Ids(js) == { js[i].job_id : i \in 1..Len(js) }

\* HashMap::insert(job.job_id, job)
Insert(cache, job) ==
    [id \in DOMAIN cache \cup {job.job_id} |-> IF id = job.job_id THEN job ELSE cache[id]]

\* entry(job.job_id).or_insert(job): an entry already there is kept
InsertIfAbsent(cache, job) ==
    IF job.job_id \in DOMAIN cache THEN cache ELSE Insert(cache, job)

RECURSIVE UpsertKeepingOld(_, _)
UpsertKeepingOld(cache, running) ==
    IF running = <<>> THEN cache
    ELSE UpsertKeepingOld(InsertIfAbsent(cache, Head(running)), Tail(running))

RECURSIVE UpsertAll(_, _)
\* for job in &running_jobs { self.job_cache.insert(job.job_id.clone(), job.clone()); }
UpsertAll(cache, running) ==
    IF running = <<>> THEN cache
    ELSE UpsertAll(Insert(cache, Head(running)), Tail(running))

\* the backfill that leaves the finished jobs as parsed
BackfillNothing(cache, finished) == finished

\* finished_jobs.into_iter().map(|mut job| { if let Some(cached_job) = ... }).collect()
Backfill(cache, finished) ==
    [i \in 1..Len(finished) |->
        IF finished[i].job_id \in DOMAIN cache
        THEN [finished[i] EXCEPT !.stdout = cache[finished[i].job_id].stdout,
                                 !.stderr = cache[finished[i].job_id].stderr]
        ELSE finished[i]]

\* the two lists chained the other way round
ChainFinishedFirst(running, finished) == finished \o running

\* running_jobs.into_iter().chain(finished_jobs.into_iter()).collect()
Chain(running, finished) == running \o finished

\* retain with no entry ever dropped
RetainAll(cache, all) == cache

\* self.job_cache.retain(|job_id, _| active_job_ids.contains(job_id))
Retain(cache, all) == [id \in DOMAIN cache \cap Ids(all) |-> cache[id]]

\* Command::output() gave Ok whatever happened: a command that could not be
\* started counts as one that printed nothing
OutputAlwaysOk(status) == TRUE

\* Command::output() gave Ok: the command was started and its output collected,
\* whatever its exit status
OutputOk(status) == status # "launch_failed"

\* history: the entry of seen for id after an iteration that got running and
\* finished from the queries
SeenAfter(id, running, finished, cycle) ==
    IF id \in Ids(running)
    THEN LET last == CHOOSE i \in 1..Len(running) :
                         /\ running[i].job_id = id
                         /\ \A k \in (i + 1)..Len(running) : running[k].job_id # id
         IN  [stdout |-> running[last].stdout, stderr |-> running[last].stderr,
              at |-> cycle, gap |-> FALSE]
    ELSE IF id \in Ids(finished) THEN seen[id]
    ELSE [seen[id] EXCEPT !.gap = TRUE]

PollSqueueShapes ==
    { [id |-> <<"1", "0">>, out |-> <<"/", "a", "/", "o", "u", "t">>, err |-> <<"/", "a", "/", "e", "r", "r">>, n |-> Len(squeue_fields),
       trail |-> TRUE, pad |-> <<>>],
      [id |-> <<"1", "0">>, out |-> <<"%", "j", ".", "o">>, err |-> <<"%", "j", ".", "e">>, n |-> Len(squeue_fields),
       trail |-> TRUE, pad |-> <<>>],
      [id |-> <<"1", "1">>, out |-> <<"/", "a", "/", "o", "u", "t">>, err |-> <<"/", "a", "/", "e", "r", "r">>, n |-> Len(squeue_fields),
       trail |-> TRUE, pad |-> <<" ">>],
      [id |-> <<"1", "0">>, out |-> <<"/", "a", "/", "o", "u", "t">>, err |-> <<"/", "a", "/", "e", "r", "r">>, n |-> Len(squeue_fields) - 1,
       trail |-> TRUE, pad |-> <<>>] }

PollSacctShapes ==
    { [id |-> <<"1", "0">>, n |-> Len(sacct_fields), trail |-> TRUE, pad |-> <<>>],
      [id |-> <<"1", "0">>, n |-> Len(sacct_fields) + 1, trail |-> TRUE, pad |-> <<>>] }

\* how a command that was started can end; one that exits abnormally is taken
\* to have printed nothing
Exits(shapes) == IF shapes = <<>> THEN {"exit_ok", "exit_failure"} ELSE {"exit_ok"}

\* the outputs of the two queries in one iteration: at most MaxLines lines in all
QueryOutputs ==
    { <<sq, sa>> \in SeqsUpTo(PollSqueueShapes, MaxLines) \X SeqsUpTo(PollSacctShapes, MaxLines) :
          Len(sq) + Len(sa) <= MaxLines }

\* get_running_jobs and get_finished_jobs on each output the model feeds
\* them, worked out once
RunningJobsOf  == [sq \in SeqsUpTo(PollSqueueShapes, MaxLines) |->
                      get_running_jobs(RenderSqueue(sq))]
FinishedJobsOf == [sa \in SeqsUpTo(PollSacctShapes, MaxLines) |->
                      get_finished_jobs(RenderSacct(sa))]

\* JobWatcher::new and the thread started by JobWatcherHandle::new
Init ==
    /\ InitResolveIdle /\ InitParseIdle
    /\ job_cache = <<>>
    /\ running_jobs = <<>> /\ finished_jobs = <<>> /\ jobs = <<>>
    /\ sent = 0
    /\ worker = "polling"
    /\ rx_open = TRUE
    /\ cycles = 0
    /\ squeue_out = <<>> /\ sacct_out = <<>>
    /\ squeue_status = "none" /\ sacct_status = "none"
    /\ seen = <<>>

\* one iteration of the loop in which both commands were started: parse,
\* update the cache, backfill, chain, prune, send, sleep.  A send on a channel
\* whose receiver is gone makes unwrap() panic.
Cycle ==
    /\ worker = "polling"
    /\ cycles < MaxCycles
    /\ \E out \in QueryOutputs :
       \E sq_status \in Exits(out[1]) \cup {"launch_failed"},
          sa_status \in Exits(out[2]) \cup {"launch_failed"} :
          /\ OutputOk(sq_status) /\ OutputOk(sa_status)
          /\ sq_status = "launch_failed" => out[1] = <<>>
          /\ sa_status = "launch_failed" => out[2] = <<>>
          /\ LET running  == RunningJobsOf[out[1]]
                 parsed   == FinishedJobsOf[out[2]]
                 updated  == UpsertAll(job_cache, running)
                 finished == Backfill(updated, parsed)
                 all      == Chain(running, finished)
             IN  /\ job_cache' = Retain(updated, all)
                 /\ running_jobs' = running
                 /\ finished_jobs' = finished
                 /\ IF rx_open
                    THEN /\ jobs' = all
                         /\ sent' = sent + 1
                         /\ worker' = "polling"
                    ELSE /\ worker' = "panicked"
                         /\ UNCHANGED <<jobs, sent>>
                 /\ seen' = [id \in DOMAIN seen \cup Ids(running) |->
                                SeenAfter(id, running, finished, cycles + 1)]
          /\ squeue_out' = out[1] /\ sacct_out' = out[2]
          /\ squeue_status' = sq_status /\ sacct_status' = sa_status
    /\ cycles' = cycles + 1
    /\ UNCHANGED <<rx_open, resolveVars, parseVars>>

\* an iteration in which squeue cannot be started: expect() panics in
\* get_running_jobs and the thread unwinds
SqueueLaunchFails ==
    /\ worker = "polling"
    /\ cycles < MaxCycles
    /\ ~OutputOk("launch_failed")
    /\ worker' = "panicked"
    /\ cycles' = cycles + 1
    /\ squeue_status' = "launch_failed" /\ sacct_status' = "none"
    /\ squeue_out' = <<>> /\ sacct_out' = <<>>
    /\ UNCHANGED <<job_cache, running_jobs, finished_jobs, jobs, sent, rx_open, seen,
                   resolveVars, parseVars>>

\* an iteration in which squeue ran and sacct cannot be started: expect()
\* panics in get_finished_jobs, before the cache is touched
SacctLaunchFails ==
    /\ worker = "polling"
    /\ cycles < MaxCycles
    /\ ~OutputOk("launch_failed")
    /\ \E sq \in SeqsUpTo(PollSqueueShapes, MaxLines) :
       \E sq_status \in Exits(sq) :
          /\ squeue_out' = sq
          /\ squeue_status' = sq_status
    /\ sacct_status' = "launch_failed"
    /\ sacct_out' = <<>>
    /\ worker' = "panicked"
    /\ cycles' = cycles + 1
    /\ UNCHANGED <<job_cache, running_jobs, finished_jobs, jobs, sent, rx_open, seen,
                   resolveVars, parseVars>>

\* the consumer drops the receiving end of the channel
ReceiverDropped ==
    /\ rx_open
    /\ rx_open' = FALSE
    /\ UNCHANGED <<job_cache, running_jobs, finished_jobs, jobs, sent, worker, cycles,
                   squeue_out, sacct_out, squeue_status, sacct_status, seen,
                   resolveVars, parseVars>>

Next == Cycle \/ SqueueLaunchFails \/ SacctLaunchFails \/ ReceiverDropped

Spec == Init /\ [][Next]_vars

-----------------------------------------------------------------------------
(* Properties of the poll loop                                             *)

\* the last iteration ran to its end and sent its list
Published == worker = "polling" /\ cycles > 0

\* the positions of the finished jobs in the list sent
FinishedPositions == (Len(running_jobs) + 1)..Len(jobs)

\* the positions in the list sent of the finished records of job id
FinishedRecordsOf(id) == { i \in FinishedPositions : jobs[i].job_id = id }

\* C1: a job that squeue listed in one iteration (its record there, the last
\* one if listed twice, having stdout p and stderr q) and that, in the next
\* iteration, squeue does not list and sacct does, has stdout p and stderr q in
\* its finished record in the list that next iteration sends
C1_BackfillRoundTrip ==
    Published =>
        \A id \in DOMAIN seen :
            seen[id].at = cycles - 1 =>
                \A i \in FinishedRecordsOf(id) :
                    /\ jobs[i].stdout = seen[id].stdout
                    /\ jobs[i].stderr = seen[id].stderr

C1_Witness ==
    /\ Published
    /\ \E id \in DOMAIN seen :
          /\ seen[id].at = cycles - 1
          /\ \E i \in FinishedRecordsOf(id) :
                jobs[i].stdout = seen[id].stdout /\ jobs[i].stdout = Some(<<"1", "0", ".", "o">>)

\* C2 as stated: a job that was running in some earlier iteration and is
\* now listed by sacct only carries the paths of its latest running record,
\* however many iterations lie in between and whatever was listed in them
C2_RetainsPathsAfterAnyGap ==
    Published =>
        \A id \in DOMAIN seen \ Ids(running_jobs) :
            \A i \in FinishedRecordsOf(id) :
                /\ jobs[i].stdout = seen[id].stdout
                /\ jobs[i].stderr = seen[id].stderr

\* C2, amended: it carries them when, in every iteration since it was last
\* running, squeue or sacct listed it; after an iteration in which neither did,
\* its finished record has no paths
C2_RetainsPathsWhileListed ==
    Published =>
        \A id \in DOMAIN seen \ Ids(running_jobs) :
            \A i \in FinishedRecordsOf(id) :
                IF seen[id].gap
                THEN jobs[i].stdout = None /\ jobs[i].stderr = None
                ELSE jobs[i].stdout = seen[id].stdout /\ jobs[i].stderr = seen[id].stderr

C2_Witness ==
    /\ Published
    /\ \E id \in DOMAIN seen :
          /\ seen[id].at = cycles - 2 /\ ~seen[id].gap
          /\ \E i \in FinishedRecordsOf(id) :
                jobs[i].stdout = seen[id].stdout /\ jobs[i].stdout # None

\* the job ids the queries of the model can report
PollIds == { d.id : d \in PollSqueueShapes \cup PollSacctShapes }

\* C3: after every completed iteration, a job id that neither squeue nor sacct
\* listed in it is no key of the cache, even if it was one before; the keys of
\* the cache are among the job ids of the list sent
C3_Pruning ==
    Published =>
        /\ \A id \in PollIds :
              id \notin (Ids(running_jobs) \cup Ids(finished_jobs)) => id \notin DOMAIN job_cache
        /\ DOMAIN job_cache \subseteq Ids(jobs)

C3_Witness ==
    /\ Published
    /\ \E id \in DOMAIN seen :
          /\ seen[id].at = cycles - 1 /\ seen[id].gap
          /\ id \notin DOMAIN job_cache
          /\ job_cache # <<>>

\* C4: no two records of a list sent have the same job_id
C4_UniqueJobIds ==
    Published =>
        \A i, k \in 1..Len(jobs) : jobs[i].job_id = jobs[k].job_id => i = k

WithoutPaths(job) == [job EXCEPT !.stdout = None, !.stderr = None]

\* C6: every completed iteration sends one message; it holds a record for each
\* accepted line of squeue, in line order, then a record for each accepted line
\* of sacct, in line order; the cache steps change nothing but the paths of the
\* finished records
C6_OneMessagePerCycle ==
    /\ worker = "polling" => sent = cycles
    /\ worker = "panicked" => sent = cycles - 1
    /\ Published =>
          /\ [i \in 1..Len(jobs) |-> jobs[i].job_id]
                 = IdsOfAccepted(squeue_out, Len(squeue_fields))
                   \o IdsOfAccepted(sacct_out, Len(sacct_fields))
          /\ SubSeq(jobs, 1, Len(running_jobs)) = RunningJobsOf[squeue_out]
          /\ [i \in 1..(Len(jobs) - Len(running_jobs)) |->
                 WithoutPaths(jobs[Len(running_jobs) + i])] = FinishedJobsOf[sacct_out]

C6_Witness ==
    /\ Published /\ cycles = 2 /\ sent = 2
    /\ Len(running_jobs) = 1 /\ Len(jobs) = 2
    /\ jobs[1].job_id # jobs[2].job_id
    /\ jobs[2].stdout # None

====
